---- MODULE Spec2Model ----
(***************************************************************************)
(* FalkorDBFactMemory (hybridagi/memory/integration/falkordb):  the entity *)
(* and fact store kept in a FalkorDB graph.  The graph is the state: nodes *)
(* tagged Entity plus the entity's label, and FACT edges between them.     *)
(* Each public method is one action; the Cypher queries it sends are       *)
(* operators on the graph, applied in the order the method sends them.     *)
(*                                                                         *)
(* Strings are sequences of one-character strings, so that iterating a     *)
(* string yields its characters.  The node pattern of the entity upsert,   *)
(* "(e:Entity, <label> {id: $id})", is read as the label list              *)
(* Entity:<label>.                                                         *)
(***************************************************************************)
EXTENDS Naturals, Sequences, FiniteSets, TLC

VARIABLES nodes, edges, call, ret

vars == <<nodes, edges, call, ret>>

\* Longest EntityList / FactList handed to update.
MaxBatch == 2
\* Longest id list handed to remove, get_entities and get_facts.
MaxIds == 1

(***************************************************************************)
(* Python values                                                           *)
(***************************************************************************)
StrId(s) == [t |-> "str", v |-> s]
UuidId(s) == [t |-> "uuid", v |-> s]
IdList(s) == [t |-> "list", v |-> s]

\* The canonical texts of the UUIDs in play.
UuidTexts == {<<"u", "1">>}

\* str(x) of an id: a UUID prints its canonical text, a string is itself.
Str(x) == x.v

\* try: UUID(text) except: text
ParseId(s) == IF s \in UuidTexts THEN UuidId(s) ELSE StrId(s)

\* Metadata dicts are sets of <<key, value>> pairs; json.dumps raises
\* TypeError on a value that JSON cannot carry.
JsonValues == {"v"}
Serializable(m) == \A p \in m : p[2] \in JsonValues
JsonDumps(m) == [json |-> m]

\* vecf32() stores each component as a 32-bit float.
F32(x) == CASE x = "0.1" -> "0.100000001490116" [] OTHER -> x
Vecf32(v) == [i \in DOMAIN v |-> F32(v[i])]

Entity(id, name, label, vector, metadata) ==
    [id |-> id, name |-> name, label |-> label, description |-> "d",
     vector |-> vector, metadata |-> metadata]

Fact(id, subj, rel, obj) ==
    [id |-> id, subj |-> subj, rel |-> [name |-> rel], obj |-> obj,
     vector |-> <<"0.5">>, metadata |-> {}]

IdA == StrId(<<"a">>)
IdAB == StrId(<<"a", "b">>)
IdU == UuidId(<<"u", "1">>)
IdF == StrId(<<"f">>)

Paris == Entity(IdA, "Paris", "City", <<"0.5">>, {})
Lyon == Entity(IdA, "Lyon", "City", <<"0.1">>, {<<"k", "v">>})
France == Entity(IdA, "France", "Country", <<"0.5">>, {})
Rome == Entity(IdAB, "Rome", "City", <<"0.5">>, {})
Oslo == Entity(IdU, "Oslo", "City", <<"0.5">>, {})
Bad == Entity(IdAB, "Bad", "City", <<"0.5">>, {<<"k", "<object>">>})

Entities == {Paris, Lyon, France, Rome, Oslo, Bad}

Facts ==
    {Fact(IdF, Paris, "located_in", Rome),
     Fact(IdF, Rome, "twinned_with", Paris),
     Fact(IdA, Rome, "is", Rome),
     Fact(IdF, Oslo, "north_of", Rome)}

Ids == {IdA, IdAB, IdU, IdF}

SeqsUpTo(S, n) == UNION {[1..k -> S] : k \in 0..n}

EntityLists == SeqsUpTo(Entities, MaxBatch)
FactLists == SeqsUpTo(Facts, MaxBatch)

\* What the client makes of a query parameter that is not a string: the
\* printed UUID is either rejected by the parser or read as arithmetic, which
\* equals no stored id.
RawOutcomes == {"error", "nomatch"}

(***************************************************************************)
(* The graph and its queries                                               *)
(***************************************************************************)
Graph == [nodes |-> nodes, edges |-> edges]

EmptyMap == [k \in {} |-> k]

Ok(st) == [st |-> st, ret |-> "ok", at |-> 0]
Err(st, e) == [st |-> st, ret |-> e, at |-> 0]

\* A query runs only if every $parameter it names is given and every
\* variable it reads is bound by its pattern.
QueryValid(q) == q.uses \subseteq q.given /\ q.reads \subseteq q.binds

MergeEntityQuery ==
    [uses |-> {"id", "name", "description", "metadata", "vector"},
     given |-> {"id", "name", "description", "vector", "metadata"},
     reads |-> {"e"}, binds |-> {"e"}]

MergeFactQuery ==
    [uses |-> {"subject_id", "object_id", "id", "properties"},
     given |-> {"id", "subject_id", "object_id", "properties"},
     reads |-> {"s", "o", "r"}, binds |-> {"s", "o", "r"}]

DeleteEntitiesQuery ==
    [uses |-> {"ids"}, given |-> {"ids"}, reads |-> {"e"}, binds |-> {"e"}]

DeleteFactsQuery ==
    [uses |-> {"id", "ids"}, given |-> {"ids"}, reads |-> {"r"}, binds |-> {"r"}]

MatchEntitiesQuery ==
    [uses |-> {"ids"}, given |-> {"ids"}, reads |-> {"e"}, binds |-> {"e"}]

MatchFactsQuery ==
    [uses |-> {"id", "ids"}, given |-> {"ids"},
     reads |-> {"e", "r", "s", "o"}, binds |-> {"s", "r", "o"}]

\* FalkorDBMemory.exist(id, "Entity"): a node tagged Entity with this id.
ExistEntity(st, id) == \E k \in DOMAIN st.nodes : k[2] = Str(id)

\* FalkorDBMemory.exist_fact(id): a FACT edge with this id.
ExistFact(st, id) == \E k \in DOMAIN st.edges : k[1] = Str(id)

Exist(st, id) == IF ExistEntity(st, id) THEN TRUE ELSE ExistFact(st, id)

EntityParams(ent) ==
    [id |-> Str(ent.id), name |-> ent.name, description |-> ent.description,
     vector |-> ent.vector, metadata |-> JsonDumps(ent.metadata)]

\* MERGE (e:Entity:<label> {id: $id}) SET e.name, e.description,
\* e.metadata, e.vector
MergeEntity(ns, label, p) ==
    LET key == <<label, p.id>>
        Set(n) == [n EXCEPT !.name = p.name, !.description = p.description,
                            !.metadata = p.metadata, !.vector = Vecf32(p.vector)]
        created == [id |-> p.id, name |-> "", description |-> "",
                    metadata |-> JsonDumps({}), vector |-> <<>>]
    IN  IF key \in DOMAIN ns
        THEN [ns EXCEPT ![key] = Set(@)]
        ELSE [k \in DOMAIN ns \cup {key} |->
                 IF k = key THEN Set(created) ELSE ns[k]]

\* One pass of the entity loop of update.
UpsertEntity(st, ent) ==
    IF ~Serializable(ent.metadata) THEN Err(st, "TypeError")
    ELSE IF ~QueryValid(MergeEntityQuery) THEN Err(st, "BackendError")
    ELSE Ok([st EXCEPT !.nodes = MergeEntity(@, ent.label, EntityParams(ent))])

FactParams(fact) ==
    [id |-> Str(fact.id), subject_id |-> fact.subj.id, object_id |-> fact.obj.id,
     properties |-> [relationship |-> fact.rel.name, vector |-> fact.vector,
                     metadata |-> JsonDumps(fact.metadata)]]

\* MATCH (s:Entity {id: $subject_id}), (o:Entity {id: $object_id})
\* MERGE (s)-[r:FACT {id: $id}]->(o) SET r += $properties
MergeFact(st, p) ==
    LET S == {k \in DOMAIN st.nodes : k[2] = p.subject_id.v}
        O == {k \in DOMAIN st.nodes : k[2] = p.object_id.v}
        K == {<<p.id, s, o>> : s \in S, o \in O}
    IN  [k \in DOMAIN st.edges \cup K |->
            IF k \in K THEN p.properties ELSE st.edges[k]]

\* One pass of the fact loop of update.
UpsertFact(st, fact, raw) ==
    LET r1 == IF ~Exist(st, fact.subj.id) THEN UpsertEntity(st, fact.subj) ELSE Ok(st)
    IN  IF r1.ret # "ok" THEN r1
        ELSE LET r2 == IF ~Exist(r1.st, fact.obj.id)
                       THEN UpsertEntity(r1.st, fact.obj) ELSE Ok(r1.st)
             IN  IF r2.ret # "ok" THEN r2
                 ELSE IF ~Serializable(fact.metadata) THEN Err(r2.st, "TypeError")
                 ELSE IF ~QueryValid(MergeFactQuery) THEN Err(r2.st, "BackendError")
                 ELSE IF fact.subj.id.t # "str" \/ fact.obj.id.t # "str"
                      THEN IF raw = "error" THEN Err(r2.st, "BackendError")
                           ELSE Ok(r2.st)
                 ELSE Ok([r2.st EXCEPT !.edges = MergeFact(r2.st, FactParams(fact))])

UpsertItem(st, shape, item, raw) ==
    IF shape \in {"Entity", "EntityList"} THEN UpsertEntity(st, item)
    ELSE UpsertFact(st, item, raw)

\* A loop that undoes the earlier items when one fails.
RECURSIVE AtomicFrom(_, _, _, _, _, _)
AtomicFrom(st0, st, shape, items, i, raw) ==
    IF i > Len(items) THEN Ok(st)
    ELSE LET r == UpsertItem(st, shape, items[i], raw)
         IN  IF r.ret # "ok" THEN [st |-> st0, ret |-> r.ret, at |-> i]
             ELSE AtomicFrom(st0, r.st, shape, items, i + 1, raw)

UpsertAllAtomic(st, shape, items, i, raw) == AtomicFrom(st, st, shape, items, i, raw)

\* The for loop: items in list order, each query committed as it is sent; an
\* exception leaves the loop with the earlier items applied.
RECURSIVE UpsertAll(_, _, _, _, _)
UpsertAll(st, shape, items, i, raw) ==
    IF i > Len(items) THEN Ok(st)
    ELSE LET r == UpsertItem(st, shape, items[i], raw)
         IN  IF r.ret # "ok" THEN [r EXCEPT !.at = i]
             ELSE UpsertAll(r.st, shape, items, i + 1, raw)

\* A type check that lets a plain list of entities through.
UpdateDuckTyped(st, shape, v, raw) ==
    IF shape \notin {"Entity", "EntityList", "Fact", "FactList", "list"}
    THEN Err(st, "ValueError")
    ELSE IF shape \in {"Entity", "Fact"} THEN UpsertAll(st, shape, <<v>>, 1, raw)
    ELSE UpsertAll(st, shape, v, 1, raw)

ValidShapes == {"Entity", "EntityList", "Fact", "FactList"}

\* update(entities_or_facts): v is the value, shape its Python type.
Update(st, shape, v, raw) ==
    IF shape \notin ValidShapes THEN Err(st, "ValueError")
    ELSE IF shape \in {"Entity", "Fact"} THEN UpsertAll(st, shape, <<v>>, 1, raw)
    ELSE UpsertAll(st, shape, v, 1, raw)

\* ids = [str(i) for i in id_or_ids]: the comprehension iterates the argument
\* itself, so a list yields its ids, a string its characters, and a UUID is
\* not iterable.
StrIds(arg) ==
    CASE arg.t = "list" -> [ret |-> "ok", ids |-> {Str(arg.v[i]) : i \in DOMAIN arg.v}]
      [] arg.t = "str" -> [ret |-> "ok", ids |-> {<<arg.v[i]>> : i \in DOMAIN arg.v}]
      [] OTHER -> [ret |-> "TypeError", ids |-> {}]

Restrict(f, S) == [k \in S |-> f[k]]

\* A node delete that leaves the incident edges behind.
DeleteNodesOnly(st, ids) ==
    [st EXCEPT !.nodes = Restrict(@, {k \in DOMAIN st.nodes : k[2] \notin ids})]

\* MATCH (e:Entity) WHERE e.id IN $ids DETACH DELETE e
DetachDelete(st, ids) ==
    LET gone == {k \in DOMAIN st.nodes : k[2] \in ids}
    IN  [nodes |-> Restrict(st.nodes, DOMAIN st.nodes \ gone),
         edges |-> Restrict(st.edges,
                      {k \in DOMAIN st.edges : k[2] \notin gone /\ k[3] \notin gone})]

\* MATCH ()-[r:FACT {id: $id}]->() WHERE r.id IN $ids DELETE r
DeleteFacts(st, ids) ==
    [st EXCEPT !.edges = Restrict(@, {k \in DOMAIN st.edges : k[1] \notin ids})]

\* remove(id_or_ids)
Remove(st, arg) ==
    LET n == StrIds(arg)
    IN  IF n.ret # "ok" THEN Err(st, n.ret)
        ELSE IF ~QueryValid(DeleteEntitiesQuery) THEN Err(st, "BackendError")
        ELSE LET st1 == DetachDelete(st, n.ids)
             IN  IF ~QueryValid(DeleteFactsQuery) THEN Err(st1, "BackendError")
                 ELSE Ok(DeleteFacts(st1, n.ids))

\* Entity(...) without a metadata argument.
DefaultMetadata == {}

\* Entity(id=..., name=..., label=..., description=..., vector=...) from the
\* properties of a returned node.
DecodeEntity(props) ==
    [id |-> ParseId(props.id), name |-> props.name, label |-> props.label,
     description |-> props.description, vector |-> props.vector,
     metadata |-> DefaultMetadata]

EntityKeys == {"id", "name", "label", "description", "vector"}

\* get_entities(id_or_ids): out is the content of the returned EntityList.
GetEntities(st, arg) ==
    LET n == StrIds(arg)
        rows == {k \in DOMAIN st.nodes : k[2] \in n.ids}
    IN  IF n.ret # "ok" THEN [ret |-> n.ret, out |-> {}]
        ELSE IF ~QueryValid(MatchEntitiesQuery) THEN [ret |-> "BackendError", out |-> {}]
        ELSE IF \E k \in rows : ~(EntityKeys \subseteq DOMAIN st.nodes[k])
             THEN [ret |-> "KeyError", out |-> {}]
        ELSE [ret |-> "ok", out |-> {DecodeEntity(st.nodes[k]) : k \in rows}]

\* get_facts(id_or_ids): the query is refused before any row is decoded.
GetFacts(st, arg) ==
    LET n == StrIds(arg)
    IN  IF n.ret # "ok" THEN [ret |-> n.ret, out |-> {}]
        ELSE IF ~QueryValid(MatchFactsQuery) THEN [ret |-> "BackendError", out |-> {}]
        ELSE [ret |-> "AttributeError", out |-> {}]

(***************************************************************************)
(* The calls                                                               *)
(***************************************************************************)
NoItem == [none |-> TRUE]

\* call: the last call made (its method and, for update and remove, the
\* Python type of its argument, the argument's first item and its length);
\* ret: how it ended and what it returned.
Init ==
    /\ nodes = EmptyMap
    /\ edges = EmptyMap
    /\ call = [op |-> "init", shape |-> "none", first |-> NoItem, n |-> 0]
    /\ ret = [status |-> "ok", at |-> 0, out |-> {}]

Called(op, shape, items) ==
    [op |-> op, shape |-> shape,
     first |-> IF Len(items) > 0 THEN items[1] ELSE NoItem, n |-> Len(items)]

Returned(r) == [status |-> r.ret, at |-> r.at, out |-> {}]

UpdateEntity ==
    \E e \in Entities :
        \E r \in {Update(Graph, "Entity", e, "error")} :
            /\ nodes' = r.st.nodes
            /\ edges' = r.st.edges
            /\ call' = Called("update", "Entity", <<e>>)
            /\ ret' = Returned(r)

UpdateEntityList ==
    \E es \in EntityLists :
        \E r \in {Update(Graph, "EntityList", es, "error")} :
            /\ nodes' = r.st.nodes
            /\ edges' = r.st.edges
            /\ call' = Called("update", "EntityList", es)
            /\ ret' = Returned(r)

\* The outcomes to choose from: a choice exists only where some fact hands the
\* query an id that is not a string.
RawChoices(fs) ==
    IF \E i \in DOMAIN fs : fs[i].subj.id.t # "str" \/ fs[i].obj.id.t # "str"
    THEN RawOutcomes ELSE {"error"}

UpdateFact ==
    \E f \in Facts : \E raw \in RawChoices(<<f>>) :
        \E r \in {Update(Graph, "Fact", f, raw)} :
            /\ nodes' = r.st.nodes
            /\ edges' = r.st.edges
            /\ call' = Called("update", "Fact", <<f>>)
            /\ ret' = Returned(r)

UpdateFactList ==
    \E fs \in FactLists : \E raw \in RawChoices(fs) :
        \E r \in {Update(Graph, "FactList", fs, raw)} :
            /\ nodes' = r.st.nodes
            /\ edges' = r.st.edges
            /\ call' = Called("update", "FactList", fs)
            /\ ret' = Returned(r)

\* A plain Python list of entities, or None: neither is one of the four types.
InvalidArgs ==
    {[shape |-> "list", v |-> es] : es \in {<<>>, <<Paris>>, <<Rome>>}}
        \cup {[shape |-> "NoneType", v |-> <<>>]}

UpdateInvalid ==
    \E a \in InvalidArgs :
        \E r \in {Update(Graph, a.shape, a.v, "error")} :
            /\ nodes' = r.st.nodes
            /\ edges' = r.st.edges
            /\ call' = Called("update", a.shape, a.v)
            /\ ret' = Returned(r)

IdArgs == Ids \cup {IdList(s) : s \in SeqsUpTo(Ids, MaxIds)}

ArgItems(arg) == IF arg.t = "list" THEN arg.v ELSE <<arg>>

DoRemove ==
    \E arg \in IdArgs :
        \E r \in {Remove(Graph, arg)} :
            /\ nodes' = r.st.nodes
            /\ edges' = r.st.edges
            /\ call' = Called("remove", arg.t, ArgItems(arg))
            /\ ret' = [status |-> r.ret, at |-> 0, out |-> {}]

DoGetEntities ==
    \E arg \in IdArgs :
        \E r \in {GetEntities(Graph, arg)} :
            /\ call' = Called("get_entities", arg.t, <<>>)
            /\ ret' = [status |-> r.ret, at |-> 0, out |-> r.out]
            /\ UNCHANGED <<nodes, edges>>

DoGetFacts ==
    \E arg \in IdArgs :
        \E r \in {GetFacts(Graph, arg)} :
            /\ call' = Called("get_facts", arg.t, <<>>)
            /\ ret' = [status |-> r.ret, at |-> 0, out |-> r.out]
            /\ UNCHANGED <<nodes, edges>>

DoExist ==
    \E id \in Ids :
        /\ call' = Called("exist", id.t, <<>>)
        /\ ret' = [status |-> "ok", at |-> 0, out |-> {Exist(Graph, id)}]
        /\ UNCHANGED <<nodes, edges>>

Next ==
    \/ UpdateEntity
    \/ UpdateEntityList
    \/ UpdateFact
    \/ UpdateFactList
    \/ UpdateInvalid
    \/ DoRemove
    \/ DoGetEntities
    \/ DoGetFacts
    \/ DoExist

Spec == Init /\ [][Next]_vars

(***************************************************************************)
(* Properties                                                              *)
(***************************************************************************)
UpdatedOne(shape) == call.op = "update" /\ call.shape = shape /\ ret.status = "ok"

NodesWithId(st, id) == {k \in DOMAIN st.nodes : k[2] = Str(id)}

IncidentEdges(st, id) ==
    {k \in DOMAIN st.edges : k[2][2] = Str(id) \/ k[3][2] = Str(id)}

SameEntity(x, e) ==
    /\ Str(x.id) = Str(e.id)
    /\ x.name = e.name
    /\ x.label = e.label
    /\ x.description = e.description
    /\ x.vector = e.vector
    /\ x.metadata = e.metadata

\* C1: after update(e) for an entity e, get_entities([e.id]) returns a
\* collection holding an entity equal to e in name, label, description, vector
\* and metadata, with the same id up to its representation (UUID or string).
C1_RoundTrip ==
    UpdatedOne("Entity") =>
        LET e == call.first
            g == GetEntities(Graph, IdList(<<e.id>>))
        IN  g.ret = "ok" /\ \E x \in g.out : SameEntity(x, e)

\* C2: an update(fact) made when neither fact.subj nor fact.obj exists as an
\* entity leaves both endpoints stored, and get_entities([subj.id, obj.id])
\* returns them.
C2_CascadingCreate ==
    [][(/\ call'.op = "update"
        /\ call'.shape = "Fact"
        /\ ~ExistEntity(Graph, call'.first.subj.id)
        /\ ~ExistEntity(Graph, call'.first.obj.id))
       => LET f == call'.first
              g == GetEntities(Graph', IdList(<<f.subj.id, f.obj.id>>))
          IN  /\ ExistEntity(Graph', f.subj.id)
              /\ ExistEntity(Graph', f.obj.id)
              /\ g.ret = "ok"
              /\ \E x \in g.out : Str(x.id) = Str(f.subj.id)
              /\ \E x \in g.out : Str(x.id) = Str(f.obj.id)]_vars

\* C3: after remove([e.id]) for a stored entity e, exist(e.id) is false and no
\* fact edge with e as subject or object is left.
C3_DeletionComplete ==
    [][(/\ call'.op = "remove"
        /\ call'.shape = "list"
        /\ call'.n = 1
        /\ ExistEntity(Graph, call'.first))
       => /\ ~Exist(Graph', call'.first)
          /\ IncidentEdges(Graph', call'.first) = {}]_vars

\* C4: in the state an update(e) of an entity e leaves, a second update(e)
\* leaves exactly one node with e's id, with the field values the first call
\* gave it.
C4_UpsertIdempotent ==
    UpdatedOne("Entity") =>
        LET again == Update(Graph, "Entity", call.first, "error")
        IN  /\ again.ret = "ok"
            /\ again.st = Graph
            /\ Cardinality(NodesWithId(again.st, call.first.id)) = 1

\* C5: after update(f) for a fact f, get_facts([f.id]) returns exactly one
\* fact, with f's id, f's subject and object entities and f's relationship
\* name.
C5_FactRetrieval ==
    UpdatedOne("Fact") =>
        LET f == call.first
            g == GetFacts(Graph, IdList(<<f.id>>))
        IN  /\ g.ret = "ok"
            /\ Cardinality(g.out) = 1
            /\ \A x \in g.out :
                  /\ Str(x.id) = Str(f.id)
                  /\ Str(x.subj.id) = Str(f.subj.id)
                  /\ Str(x.obj.id) = Str(f.obj.id)
                  /\ x.rel.name = f.rel.name

\* C6: update with a value that is not an Entity, EntityList, Fact or FactList
\* raises ValueError and leaves the stored nodes and edges as they were.
C6_InvalidArgument ==
    [][(call'.op = "update" /\ call'.shape \in {"list", "NoneType"})
       => (ret'.status = "ValueError" /\ nodes' = nodes /\ edges' = edges)]_vars

C6_Witness ==
    /\ call.op = "update"
    /\ call.shape = "list"
    /\ call.n = 1
    /\ ret.status = "ValueError"
    /\ DOMAIN nodes # {}
    /\ DOMAIN edges # {}

\* C7: remove(x) with a single id x (a string or a UUID) leaves the store as
\* remove([x]) leaves it: without the entity x, its incident edges and the
\* fact edge x, everything else unchanged.
C7_RemoveSingleId ==
    [][(call'.op = "remove" /\ call'.shape \in {"str", "uuid"})
       => LET x == call'.first
              asList == Remove(Graph, IdList(<<x>>))
          IN  /\ Graph' = asList.st
              /\ ~ExistEntity(Graph', x)
              /\ ~ExistFact(Graph', x)]_vars

C9_NoDanglingEdge ==
    \A k \in DOMAIN edges : k[2] \in DOMAIN nodes /\ k[3] \in DOMAIN nodes

C9_Witness ==
    /\ call.op = "remove"
    /\ call.shape = "list"
    /\ call.n = 1
    /\ call.first = IdA
    /\ NodesWithId(Graph, IdA) = {}
    /\ DOMAIN edges # {}

\* C10: at most one stored fact edge carries a given fact id.
C10_FactIdUnique ==
    \A j \in DOMAIN edges : \A k \in DOMAIN edges : j[1] = k[1] => j = k

====
